---- MODULE Spec2Model ----
(***************************************************************************)
(* msp430_spi.c: blocking SPI transfers (8, 16 and 9 bits) over the USI,   *)
(* USCI_A and USCI_B peripherals of the MSP430 family.  The file holds one *)
(* backend per preprocessor guard; a build configuration selects one.      *)
(* The model keeps the special-function registers the code touches, the    *)
(* position of the CPU inside spi_init / spi_transfer / spi_transfer16 /   *)
(* spi_transfer9, the shifting hardware, and what a logic analyser on the  *)
(* clock and data lines would record during one call.                      *)
(*                                                                         *)
(* Port registers (8 bit) are sets of bit numbers: x |= M is a union,      *)
(* x &= ~M a set difference.  Data registers are integers of their width.  *)
(***************************************************************************)
EXTENDS Integers, Sequences, FiniteSets

\* ---------------------------------------------------------------- bounds
\* how many initial contents of the port registers are tried
NumPatterns == 3
\* how many times the environment's interrupt handler may run
MaxIsr == 1

\* ------------------------------------------------------------- constants
BIT0 == 0
BIT1 == 1
BIT2 == 2
BIT3 == 3
BIT4 == 4
BIT5 == 5
BIT6 == 6
BIT7 == 7
AllBits == 0 .. 7
Ports == {"P1", "P2", "P3"}

\* build configurations: one per guard of the file.  The _MS configurations
\* are the F5xxx USCI_A builds in which the macro spelt __MS430F5172 /
\* __MS430F5529 (lines 420, 452) is defined as well, which is what compiles
\* that backend's spi_transfer9.
Cfgs == {"USI", "USCI_A_F2", "USCI_B_F2", "USCI_A_G4", "USCI_B_G4",
         "USCI_A_F5172", "USCI_A_F5529", "USCI_A_F5172_MS", "USCI_A_F5529_MS",
         "USCI_B_F5172", "USCI_B_F5529"}

Family(c) ==
    CASE c = "USI" -> "USI"
      [] c \in {"USCI_A_F2", "USCI_B_F2"} -> "F2"
      [] c \in {"USCI_A_G4", "USCI_B_G4"} -> "G4"
      [] OTHER -> "F5"

\* USCI_A backends clear UCA0MCTL in spi_init; USCI_B has no such register
IsUsciA(c) == c \in {"USCI_A_F2", "USCI_A_G4", "USCI_A_F5172", "USCI_A_F5529",
                     "USCI_A_F5172_MS", "USCI_A_F5529_MS"}

\* which configurations define spi_transfer9
HasTransfer9(c) == c \notin {"USCI_A_F5172", "USCI_A_F5529"}

\* spi_transfer9 by pin manipulation (every backend but USI)
BitBang(c) == c # "USI" /\ HasTransfer9(c)

PM(p1, p2, p3) == [p \in Ports |-> CASE p = "P1" -> p1 [] p = "P2" -> p2 [] OTHER -> p3]

\* the pins spi_init routes to the peripheral, per port
SpiMask(c) ==
    CASE c = "USI" -> PM({BIT5, BIT6, BIT7}, {}, {})
      [] c = "USCI_A_F2" -> PM({BIT1, BIT2, BIT4}, {}, {})
      [] c = "USCI_B_F2" -> PM({BIT5, BIT6, BIT7}, {}, {})
      [] c = "USCI_A_G4" -> PM({}, {}, {BIT0, BIT4, BIT5})
      [] c = "USCI_B_G4" -> PM({}, {}, {BIT1, BIT2, BIT3})
      [] c \in {"USCI_A_F5172", "USCI_A_F5172_MS"} -> PM({BIT0, BIT1, BIT2}, {}, {})
      [] c \in {"USCI_A_F5529", "USCI_A_F5529_MS"} -> PM({}, {BIT7}, {BIT3, BIT4})
      [] c = "USCI_B_F5172" -> PM({BIT3, BIT4, BIT5}, {}, {})
      [] OTHER -> PM({}, {}, {BIT0, BIT1, BIT2})

\* the pin spi_transfer9 pulses (the clock)
ClkPin(c) ==
    CASE c = "USI" -> <<"P1", BIT5>>
      [] c = "USCI_A_F2" -> <<"P1", BIT4>>
      [] c = "USCI_B_F2" -> <<"P1", BIT5>>
      [] c = "USCI_A_G4" -> <<"P3", BIT0>>
      [] c = "USCI_B_G4" -> <<"P3", BIT3>>
      [] c \in {"USCI_A_F5172", "USCI_A_F5172_MS"} -> <<"P1", BIT0>>
      [] c \in {"USCI_A_F5529", "USCI_A_F5529_MS"} -> <<"P2", BIT7>>
      [] c = "USCI_B_F5172" -> <<"P1", BIT3>>
      [] OTHER -> <<"P3", BIT2>>

\* the pin spi_transfer9 sets to bit 8 of its argument (data out)
SimoPin(c) ==
    CASE c = "USI" -> <<"P1", BIT6>>
      [] c = "USCI_A_F2" -> <<"P1", BIT2>>
      [] c = "USCI_B_F2" -> <<"P1", BIT7>>
      [] c = "USCI_A_G4" -> <<"P3", BIT4>>
      [] c = "USCI_B_G4" -> <<"P3", BIT1>>
      [] c \in {"USCI_A_F5172", "USCI_A_F5172_MS"} -> <<"P1", BIT1>>
      [] c \in {"USCI_A_F5529", "USCI_A_F5529_MS"} -> <<"P3", BIT3>>
      [] c = "USCI_B_F5172" -> <<"P1", BIT4>>
      [] OTHER -> <<"P3", BIT0>>

\* the third routed pin, the one spi_transfer9 leaves out of the outputs
\* (data in)
SomiPin(c) ==
    CASE c = "USI" -> <<"P1", BIT7>>
      [] c = "USCI_A_F2" -> <<"P1", BIT1>>
      [] c = "USCI_B_F2" -> <<"P1", BIT6>>
      [] c = "USCI_A_G4" -> <<"P3", BIT5>>
      [] c = "USCI_B_G4" -> <<"P3", BIT2>>
      [] c \in {"USCI_A_F5172", "USCI_A_F5172_MS"} -> <<"P1", BIT2>>
      [] c \in {"USCI_A_F5529", "USCI_A_F5529_MS"} -> <<"P3", BIT4>>
      [] c = "USCI_B_F5172" -> <<"P1", BIT5>>
      [] OTHER -> <<"P3", BIT1>>

\* the pin spi_transfer9 reads in "if (PxIN & BITn)"
SamplePin(c) ==
    CASE c = "USCI_A_F2" -> <<"P1", BIT1>>
      [] c = "USCI_B_F2" -> <<"P1", BIT4>>
      [] c = "USCI_A_G4" -> <<"P3", BIT5>>
      [] c = "USCI_B_G4" -> <<"P3", BIT2>>
      [] c \in {"USCI_A_F5172", "USCI_A_F5172_MS"} -> <<"P1", BIT2>>
      [] c \in {"USCI_A_F5529", "USCI_A_F5529_MS"} -> <<"P3", BIT4>>
      [] c = "USCI_B_F5172" -> <<"P1", BIT5>>
      [] OTHER -> <<"P3", BIT1>>

\* a pin of the SPI port that is not an SPI pin (what other code may own)
OtherPin(c) ==
    CASE c \in {"USCI_A_G4"} -> <<"P3", BIT1>>
      [] c \in {"USCI_B_G4", "USCI_A_F5529", "USCI_A_F5529_MS"} -> <<"P3", BIT0>>
      [] c \in {"USCI_A_F5172", "USCI_A_F5172_MS"} -> <<"P1", BIT3>>
      [] c = "USCI_B_F5529" -> <<"P3", BIT3>>
      [] OTHER -> <<"P1", BIT0>>

\* ------------------------------------------------------------- the build
\* the macros the guards of the file test: those the device header defines,
\* the driver selection, and the two misspelt chip macros of lines 420, 452
AllMacros == {"__MSP430_HAS_USI__", "__MSP430_HAS_USCI__", "__MSP430_HAS_TB3__",
              "__MSP430_HAS_USCI_A0__", "__MSP430_HAS_USCI_B0__",
              "SPI_DRIVER_USCI_A", "SPI_DRIVER_USCI_B",
              "__MSP430F5172", "__MSP430F5529", "__MS430F5172", "__MS430F5529"}

EntryPoints == {"spi_init", "spi_transfer", "spi_transfer16", "spi_transfer9"}

\* the backend blocks of the file, in file order (lines 29, 85, 158, 231, 303,
\* 375, 488)
BlockSeq == <<"USI", "USCI_A_F2", "USCI_B_F2", "USCI_A_G4", "USCI_B_G4",
              "USCI_A_F5", "USCI_B_F5">>

\* the #if / #ifdef of a backend block, under the macros ms
Guard(b, ms) ==
    CASE b = "USI" -> "__MSP430_HAS_USI__" \in ms
      [] b = "USCI_A_F2" -> /\ "__MSP430_HAS_USCI__" \in ms /\ "SPI_DRIVER_USCI_A" \in ms
                            /\ "__MSP430_HAS_TB3__" \notin ms
      [] b = "USCI_B_F2" -> /\ "__MSP430_HAS_USCI__" \in ms /\ "SPI_DRIVER_USCI_B" \in ms
                            /\ "__MSP430_HAS_TB3__" \notin ms
      [] b = "USCI_A_G4" -> /\ "__MSP430_HAS_USCI__" \in ms /\ "SPI_DRIVER_USCI_A" \in ms
                            /\ "__MSP430_HAS_TB3__" \in ms
      [] b = "USCI_B_G4" -> /\ "__MSP430_HAS_USCI__" \in ms /\ "SPI_DRIVER_USCI_B" \in ms
                            /\ "__MSP430_HAS_TB3__" \in ms
      [] b = "USCI_A_F5" -> "__MSP430_HAS_USCI_A0__" \in ms /\ "SPI_DRIVER_USCI_A" \in ms
      [] OTHER -> "__MSP430_HAS_USCI_B0__" \in ms /\ "SPI_DRIVER_USCI_B" \in ms

\* the backends a build selects
Blocks(ms) == {b \in {BlockSeq[i] : i \in 1 .. Len(BlockSeq)} : Guard(b, ms)}

\* how many definitions of the entry point f the block b holds once its inner
\* #ifdef are resolved: the F5xxx blocks guard spi_transfer9 per chip
DefsIn(b, f, ms) ==
    IF f # "spi_transfer9" THEN 1
    ELSE CASE b = "USCI_A_F5" -> (IF "__MS430F5172" \in ms THEN 1 ELSE 0)
                                 + (IF "__MS430F5529" \in ms THEN 1 ELSE 0)
           [] b = "USCI_B_F5" -> (IF "__MSP430F5172" \in ms THEN 1 ELSE 0)
                                 + (IF "__MSP430F5529" \in ms THEN 1 ELSE 0)
           [] OTHER -> 1

\* definitions of f in the first k blocks that are compiled
RECURSIVE DefsUpTo(_, _, _)
DefsUpTo(k, f, ms) ==
    IF k = 0 THEN 0
    ELSE DefsUpTo(k - 1, f, ms)
         + (IF Guard(BlockSeq[k], ms) THEN DefsIn(BlockSeq[k], f, ms) ELSE 0)

\* definitions of f in the translation unit
DefCount(ms, f) == DefsUpTo(Len(BlockSeq), f, ms)

\* the macros of each build configuration of Cfgs
MacrosOf(c) ==
    CASE c = "USI" -> {"__MSP430_HAS_USI__"}
      [] c = "USCI_A_F2" -> {"__MSP430_HAS_USCI__", "SPI_DRIVER_USCI_A"}
      [] c = "USCI_B_F2" -> {"__MSP430_HAS_USCI__", "SPI_DRIVER_USCI_B"}
      [] c = "USCI_A_G4" -> {"__MSP430_HAS_USCI__", "__MSP430_HAS_TB3__", "SPI_DRIVER_USCI_A"}
      [] c = "USCI_B_G4" -> {"__MSP430_HAS_USCI__", "__MSP430_HAS_TB3__", "SPI_DRIVER_USCI_B"}
      [] c = "USCI_A_F5172" -> {"__MSP430_HAS_USCI_A0__", "__MSP430_HAS_USCI_B0__",
                                "SPI_DRIVER_USCI_A", "__MSP430F5172"}
      [] c = "USCI_A_F5529" -> {"__MSP430_HAS_USCI_A0__", "__MSP430_HAS_USCI_B0__",
                                "SPI_DRIVER_USCI_A", "__MSP430F5529"}
      [] c = "USCI_A_F5172_MS" -> {"__MSP430_HAS_USCI_A0__", "__MSP430_HAS_USCI_B0__",
                                   "SPI_DRIVER_USCI_A", "__MSP430F5172", "__MS430F5172"}
      [] c = "USCI_A_F5529_MS" -> {"__MSP430_HAS_USCI_A0__", "__MSP430_HAS_USCI_B0__",
                                   "SPI_DRIVER_USCI_A", "__MSP430F5529", "__MS430F5529"}
      [] c = "USCI_B_F5172" -> {"__MSP430_HAS_USCI_A0__", "__MSP430_HAS_USCI_B0__",
                                "SPI_DRIVER_USCI_B", "__MSP430F5172"}
      [] OTHER -> {"__MSP430_HAS_USCI_A0__", "__MSP430_HAS_USCI_B0__",
                   "SPI_DRIVER_USCI_B", "__MSP430F5529"}

\* the supported build configurations: a peripheral family, a driver selection
\* and, on the F5xxx, a chip
SupportedCfgs == Cfgs \ {"USCI_A_F5172_MS", "USCI_A_F5529_MS"}

\* the configuration a set of macros is, if it is one
CfgOf(ms) == IF \E c \in Cfgs : MacrosOf(c) = ms
             THEN CHOOSE c \in Cfgs : MacrosOf(c) = ms ELSE "none"

\* ------------------------------------------------------------ arithmetic
Pow2(n) == IF n = 0 THEN 1 ELSE IF n = 1 THEN 2 ELSE IF n = 2 THEN 4
           ELSE IF n = 3 THEN 8 ELSE IF n = 4 THEN 16 ELSE IF n = 5 THEN 32
           ELSE IF n = 6 THEN 64 ELSE IF n = 7 THEN 128 ELSE 256
\* bit n of the integer x
BitOf(x, n) == (x \div Pow2(n)) % 2
\* the bit numbers set in the byte x
BitsOf(x) == {n \in AllBits : BitOf(x, n) = 1}
\* (uint8_t *)&w on the little-endian MSP430: w8[1] is the high byte
HiByte(w) == (w \div 256) % 256
LoByte(w) == w % 256
\* x | y for a 16-bit x whose low byte is clear and a byte y
OrLow(x, y) == (x \div 256) * 256 + y

\* ----------------------------------------------------------------- state
VARIABLES
    cfg,        \* the build configuration (fixed)
    pc,         \* where the CPU is
    fn,         \* the entry point being executed, or the last one that returned
    inw,        \* its argument (inb / inw)
    retw,       \* the local retw of spi_transfer16 / spi_transfer9
    ret,        \* the value the last call returned
    PSEL, PSEL2, PDIR, POUT, PREN,   \* PxSEL, PxSEL2, PxDIR, PxOUT, PxREN per port
    save,       \* pNdir_save, pNout_save, pNren_save of spi_transfer9
    usci,       \* UCx0CTL0, UCx0CTL1, UCx0BR0/1, UCA0MCTL, TXBUF, RXBUF, RXIFG, shifter
    usi,        \* USICTL0, USICTL1, USICKCTL, USISR, USICNT
    GIE,        \* status register: general interrupt enable
    CPUOFF,     \* status register: CPU off (LPM0)
    wire,       \* what a logic analyser recorded since the call began
    initialized,\* spi_init has returned at least once
    entry,      \* the port registers when the current call was entered
    snap,       \* the configuration the previous spi_init left, while nothing else ran
    selInit,    \* the function-select registers as the last spi_init left them
    prev,       \* what returned right before this spi_transfer was called
    isrCount,   \* how often the environment's interrupt handler ran
    irq,        \* whether it ran during the current call, and the level it wrote
    macros,     \* the preprocessor macros defined for the build
    stage,      \* how far the build of msp430_spi.c has come
    defs        \* how many definitions of each entry point were compiled

vars == <<cfg, pc, fn, inw, retw, ret, PSEL, PSEL2, PDIR, POUT, PREN, save, usci, usi,
          GIE, CPUOFF, wire, initialized, entry, snap, selInit, prev, isrCount, irq,
          macros, stage, defs>>

ports == <<PSEL, PSEL2, PDIR, POUT, PREN>>
ghosts == <<initialized, entry, snap, selInit, prev>>
cpu == <<GIE, CPUOFF>>
build == <<macros, stage, defs>>

\* -------------------------------------------------------- pins and lines
\* Where a pin is routed.  F2xxx/G2xx3 select the USCI with PxSEL and PxSEL2
\* both set (lines 89-90, 162-163); G2xx4/G2xx5 with PxSEL set and PxSEL2
\* clear (235-236, 307-308); F5xxx with PxSEL set (380-384, 493-497); the USI
\* with the USIPEx bits of USICTL0 (36).
PinRole(c, sel, sel2, ctl0, pin) ==
    LET p == pin[1]
        b == pin[2]
    IN  CASE Family(c) = "F2" ->
               IF b \in sel[p] /\ b \in sel2[p] THEN "periph"
               ELSE IF b \notin sel[p] /\ b \notin sel2[p] THEN "gpio" ELSE "other"
          [] Family(c) = "G4" ->
               IF b \in sel[p] /\ b \notin sel2[p] THEN "periph"
               ELSE IF b \notin sel[p] /\ b \notin sel2[p] THEN "gpio" ELSE "other"
          [] Family(c) = "F5" -> IF b \in sel[p] THEN "periph" ELSE "gpio"
          [] OTHER ->
               IF (b = BIT5 /\ "USIPE5" \in ctl0) \/ (b = BIT6 /\ "USIPE6" \in ctl0)
                  \/ (b = BIT7 /\ "USIPE7" \in ctl0)
               THEN "periph" ELSE "gpio"

Role(pin) == PinRole(cfg, PSEL, PSEL2, usi.ctl0, pin)

AllPeripheral == \A pin \in {ClkPin(cfg), SimoPin(cfg), SomiPin(cfg)} : Role(pin) = "periph"

\* The level of a line as seen from outside: "P" while the peripheral owns the
\* pin, "L"/"H" while the pin is a general-purpose output, "Z" otherwise.
Level(c, sel, sel2, dir, out, pin) ==
    LET r == PinRole(c, sel, sel2, {}, pin)
    IN  IF r = "periph" THEN "P"
        ELSE IF r = "gpio" /\ pin[2] \in dir[pin[1]]
             THEN (IF pin[2] \in out[pin[1]] THEN "H" ELSE "L")
             ELSE "Z"

Lines(sel, sel2, dir, out) ==
    <<Level(cfg, sel, sel2, dir, out, ClkPin(cfg)),
      Level(cfg, sel, sel2, dir, out, SimoPin(cfg))>>

\* the analyser records a "line" event whenever the clock or data-out level changes
Watch(sel, sel2, dir, out) ==
    IF Lines(sel, sel2, dir, out) = Lines(PSEL, PSEL2, PDIR, POUT) THEN wire
    ELSE Append(wire, <<"line", Lines(sel, sel2, dir, out)[1], Lines(sel, sel2, dir, out)[2]>>)

Bic(reg, mask) == [p \in Ports |-> reg[p] \ mask[p]]
Bis(reg, mask) == [p \in Ports |-> reg[p] \cup mask[p]]

\* ------------------------------------------------------------------ Init
\* the k-th initial content tried for a port register
Pat(k) == BitsOf((k * 93) % 256)

\* the peripheral after power-up clear, and after some earlier use
UsciPuc == [swrst |-> TRUE, ctl0 |-> {}, ssel |-> 0, br0 |-> 0, br1 |-> 0, mctl |-> 0,
            txbuf |-> 0, rxbuf |-> 0, rxifg |-> FALSE, txsr |-> 0, rxsr |-> 0, bits |-> 0]
UsciUsed == [swrst |-> FALSE, ctl0 |-> {"UCCKPL", "UC7BIT"}, ssel |-> 1, br0 |-> 7,
             br1 |-> 1, mctl |-> 5, txbuf |-> 60, rxbuf |-> 60, rxifg |-> TRUE,
             txsr |-> 0, rxsr |-> 0, bits |-> 0]
UsiPuc == [ctl0 |-> {"USISWRST"}, ctl1 |-> {"USIIFG"}, ssel |-> 0, div |-> 0,
           sr |-> 0, cnt |-> 0, b16 |-> FALSE]
UsiUsed == [ctl0 |-> {"USILSB", "USIGE"}, ctl1 |-> {"USII2C", "USIIFG"}, ssel |-> 1,
            div |-> 3, sr |-> 48879, cnt |-> 0, b16 |-> TRUE]

\* the function select of the pins: PxSEL, PxSEL2 and the USIPEx bits
FuncSel == <<PSEL, PSEL2, usi.ctl0 \cap {"USIPE5", "USIPE6", "USIPE7"}>>

NoSnap == [valid |-> FALSE, n |-> 0]
NoIrq == [ran |-> FALSE, high |-> FALSE]
NoSave == [dir |-> PM({}, {}, {}), out |-> PM({}, {}, {}), ren |-> PM({}, {}, {})]

Init ==
    /\ cfg \in Cfgs
    /\ pc = "idle" /\ fn = "none" /\ inw = 0 /\ retw = 0 /\ ret = 0
    /\ \E i \in 0 .. NumPatterns - 1, used \in BOOLEAN :
          /\ PDIR = PM(Pat(i), Pat(i), Pat(i))
          /\ POUT = PM(Pat(i + 1), Pat(i + 1), Pat(i + 1))
          /\ PREN = PM(Pat(i + 2), Pat(i + 2), Pat(i + 2))
          /\ PSEL = IF used THEN PM(Pat(i + 1), Pat(i + 1), Pat(i + 1)) ELSE PM({}, {}, {})
          /\ PSEL2 = IF used THEN PM(Pat(i + 2), Pat(i + 2), Pat(i + 2)) ELSE PM({}, {}, {})
          /\ usci = IF used /\ cfg # "USI" THEN UsciUsed ELSE UsciPuc
          /\ usi = IF used /\ cfg = "USI" THEN UsiUsed ELSE UsiPuc
    /\ save = NoSave
    /\ GIE = TRUE /\ CPUOFF = FALSE
    /\ wire = <<>>
    /\ initialized = FALSE
    /\ entry = NoSave
    /\ snap = NoSnap
    /\ selInit = FuncSel
    /\ prev = "other"
    /\ isrCount = 0
    /\ irq = NoIrq
    /\ macros = MacrosOf(cfg)
    /\ stage = "compiled"
    /\ defs = [f \in EntryPoints |-> DefCount(macros, f)]

\* what spi_init is there to establish: configuration, reset state, pending
\* flags and pin routing
ConfigState ==
    [swrst |-> usci.swrst, ctl0 |-> usci.ctl0, ssel |-> usci.ssel, br0 |-> usci.br0,
     br1 |-> usci.br1, mctl |-> usci.mctl, rxifg |-> usci.rxifg,
     uctl0 |-> usi.ctl0, uctl1 |-> usi.ctl1, ussel |-> usi.ssel, udiv |-> usi.div,
     usr |-> usi.sr, sel |-> PSEL, sel2 |-> PSEL2]

\* reset is asserted (UCSWRST of UCx0CTL1, USISWRST of USICTL0)
InReset == IF cfg = "USI" THEN "USISWRST" \in usi.ctl0 ELSE usci.swrst

\* -------------------------------------------------------------- spi_init
\* the caller enters spi_init
InitCall ==
    /\ pc = "idle" /\ ~CPUOFF
    /\ pc' = IF cfg = "USI" THEN "u_rst" ELSE "i_sel"
    /\ fn' = "init" /\ ret' = 0 /\ inw' = 0 /\ retw' = 0 /\ wire' = <<>>
    /\ prev' = "other" /\ irq' = NoIrq
    /\ UNCHANGED <<cfg, build, ports, save, usci, usi, cpu, initialized, entry, snap,
                   selInit, isrCount>>

\* PxSEL |= pins
C6_Mut_InitSel ==
    [p \in Ports |-> (PSEL[p] \ SpiMask(cfg)[p]) \cup (SpiMask(cfg)[p] \ PSEL[p])]
InitSelValue == Bis(PSEL, SpiMask(cfg))
InitSel ==
    /\ pc = "i_sel" /\ ~CPUOFF
    /\ PSEL' = InitSelValue
    /\ pc' = IF Family(cfg) = "F5" THEN "i_rst" ELSE "i_sel2"
    /\ wire' = Watch(PSEL', PSEL2, PDIR, POUT)
    /\ UNCHANGED <<cfg, build, fn, inw, retw, ret, PSEL2, PDIR, POUT, PREN, save, usci, usi,
                   cpu, ghosts, isrCount, irq>>

\* P1SEL2 |= pins (F2xxx/G2xx3), P3SEL2 &= ~pins (G2xx4/G2xx5)
InitSel2Value ==
    IF Family(cfg) = "F2" THEN Bis(PSEL2, SpiMask(cfg)) ELSE Bic(PSEL2, SpiMask(cfg))
InitSel2 ==
    /\ pc = "i_sel2" /\ ~CPUOFF
    /\ PSEL2' = InitSel2Value
    /\ pc' = "i_rst"
    /\ wire' = Watch(PSEL, PSEL2', PDIR, POUT)
    /\ UNCHANGED <<cfg, build, fn, inw, retw, ret, PSEL, PDIR, POUT, PREN, save, usci, usi,
                   cpu, ghosts, isrCount, irq>>

\* UCx0CTL1 |= UCSWRST: the USCI stops shifting and clears UCx0RXIFG
C7_Mut_InitReset ==
    /\ pc = "i_rst" /\ ~CPUOFF
    /\ pc' = IF IsUsciA(cfg) THEN "i_mctl" ELSE "i_ctl0"
    /\ UNCHANGED <<cfg, build, fn, inw, retw, ret, ports, save, usci, usi, cpu, wire, ghosts,
                   isrCount, irq>>
InitReset ==
    /\ pc = "i_rst" /\ ~CPUOFF
    /\ usci' = [usci EXCEPT !.swrst = TRUE, !.rxifg = FALSE, !.bits = 0]
    /\ pc' = IF IsUsciA(cfg) THEN "i_mctl" ELSE "i_ctl0"
    /\ UNCHANGED <<cfg, build, fn, inw, retw, ret, ports, save, usi, cpu, wire, ghosts, isrCount, irq>>

\* UCA0MCTL = 0x00
InitMctl ==
    /\ pc = "i_mctl" /\ ~CPUOFF
    /\ usci' = [usci EXCEPT !.mctl = 0]
    /\ pc' = "i_ctl0"
    /\ UNCHANGED <<cfg, build, fn, inw, retw, ret, ports, save, usi, cpu, wire, ghosts, isrCount, irq>>

\* UCx0CTL0 = UCCKPH | UCMSB | UCMST | UCMODE_0 | UCSYNC
InitCtl0 ==
    /\ pc = "i_ctl0" /\ ~CPUOFF
    /\ usci' = [usci EXCEPT !.ctl0 = {"UCCKPH", "UCMSB", "UCMST", "UCSYNC"}]
    /\ pc' = "i_br0"
    /\ UNCHANGED <<cfg, build, fn, inw, retw, ret, ports, save, usi, cpu, wire, ghosts, isrCount, irq>>

\* UCx0BR0 = 0x01
InitBr0 ==
    /\ pc = "i_br0" /\ ~CPUOFF
    /\ usci' = [usci EXCEPT !.br0 = 1]
    /\ pc' = "i_br1"
    /\ UNCHANGED <<cfg, build, fn, inw, retw, ret, ports, save, usi, cpu, wire, ghosts, isrCount, irq>>

\* UCx0BR1 = 0x00
InitBr1 ==
    /\ pc = "i_br1" /\ ~CPUOFF
    /\ usci' = [usci EXCEPT !.br1 = 0]
    /\ pc' = "i_ctl1"
    /\ UNCHANGED <<cfg, build, fn, inw, retw, ret, ports, save, usi, cpu, wire, ghosts, isrCount, irq>>

\* UCx0CTL1 = UCSSEL_2: selects SMCLK and clears UCSWRST; spi_init returns
InitCtl1Value == [usci EXCEPT !.ssel = 2, !.swrst = FALSE]
InitCtl1 ==
    /\ pc = "i_ctl1" /\ ~CPUOFF
    /\ usci' = InitCtl1Value
    /\ pc' = "idle"
    /\ initialized' = TRUE
    /\ UNCHANGED <<cfg, build, fn, inw, retw, ret, ports, save, usi, cpu, wire, entry, prev,
                   isrCount, irq>>
    /\ snap' = [valid |-> TRUE, n |-> IF snap.n = 0 THEN 1 ELSE 2, was |-> ConfigState']
    /\ selInit' = FuncSel'

\* USICTL0 |= USISWRST
UsiInitReset ==
    /\ pc = "u_rst" /\ ~CPUOFF
    /\ usi' = [usi EXCEPT !.ctl0 = @ \cup {"USISWRST"}]
    /\ pc' = "u_ctl1"
    /\ UNCHANGED <<cfg, build, fn, inw, retw, ret, ports, save, usci, cpu, wire, ghosts, isrCount, irq>>

\* USICTL1 = USICKPH
UsiInitCtl1 ==
    /\ pc = "u_ctl1" /\ ~CPUOFF
    /\ usi' = [usi EXCEPT !.ctl1 = {"USICKPH"}]
    /\ pc' = "u_ckctl"
    /\ UNCHANGED <<cfg, build, fn, inw, retw, ret, ports, save, usci, cpu, wire, ghosts, isrCount, irq>>

\* USICKCTL = USISSEL_2 | USIDIV_0
UsiInitCkctl ==
    /\ pc = "u_ckctl" /\ ~CPUOFF
    /\ usi' = [usi EXCEPT !.ssel = 2, !.div = 0]
    /\ pc' = "u_ctl0"
    /\ UNCHANGED <<cfg, build, fn, inw, retw, ret, ports, save, usci, cpu, wire, ghosts, isrCount, irq>>

\* USICTL0 = USIPE7 | USIPE6 | USIPE5 | USIMST | USIOE: routes the pins, makes
\* the USI the master and, USISWRST not being among the bits, releases reset
UsiInitCtl0Value == {"USIPE7", "USIPE6", "USIPE5", "USIMST", "USIOE"}
UsiInitCtl0 ==
    /\ pc = "u_ctl0" /\ ~CPUOFF
    /\ usi' = [usi EXCEPT !.ctl0 = UsiInitCtl0Value]
    /\ pc' = "u_isr"
    /\ UNCHANGED <<cfg, build, fn, inw, retw, ret, ports, save, usci, cpu, wire, ghosts, isrCount, irq>>

\* USISR = 0x0000; spi_init returns
UsiInitSr ==
    /\ pc = "u_isr" /\ ~CPUOFF
    /\ usi' = [usi EXCEPT !.sr = 0]
    /\ pc' = "idle"
    /\ initialized' = TRUE
    /\ UNCHANGED <<cfg, build, fn, inw, retw, ret, ports, save, usci, cpu, wire, entry, prev,
                   isrCount, irq>>
    /\ snap' = [valid |-> TRUE, n |-> IF snap.n = 0 THEN 1 ELSE 2, was |-> ConfigState']
    /\ selInit' = FuncSel'

\* ------------------------------------------------------ the test values
TestBytes == {0, 85, 165, 255}
TestWords == {0, 4660, 42330, 65535}
\* 0x000, 0x0C3, 0x100, 0x1C3, 0x1FF, and 0x02C3, 0xFFFF with bits above bit 8
TestWords9 == {0, 195, 256, 451, 511, 707, 65535}

\* ------------------------------------------------------- entering a call
\* what the caller did right before a spi_transfer: a spi_transfer9, one
\* spi_init, two or more spi_init in succession, or something else
PrevOf ==
    IF fn = "t9" THEN "t9"
    ELSE IF fn = "init" /\ snap.valid THEN (IF snap.n = 1 THEN "init1" ELSE "init2")
    ELSE "other"

\* the caller enters spi_transfer(inb)
Transfer8Call ==
    /\ pc = "idle" /\ ~CPUOFF /\ initialized
    /\ \E v \in TestBytes : inw' = v
    /\ ret' = 0 /\ fn' = "t8" /\ retw' = 0 /\ wire' = <<>>
    /\ pc' = IF cfg = "USI" THEN "u_ie" ELSE "t8_tx"
    /\ entry' = [dir |-> PDIR, out |-> POUT, ren |-> PREN]
    /\ snap' = NoSnap
    /\ prev' = PrevOf
    /\ irq' = NoIrq
    /\ UNCHANGED <<cfg, build, ports, save, usci, usi, cpu, initialized, selInit, isrCount>>

\* the caller enters spi_transfer16(inw)
Transfer16Call ==
    /\ pc = "idle" /\ ~CPUOFF /\ initialized
    /\ \E v \in TestWords : inw' = v
    /\ ret' = 0 /\ fn' = "t16" /\ retw' = 0 /\ wire' = <<>>
    /\ pc' = IF cfg = "USI" THEN "u_ie" ELSE "t16_tx1"
    /\ entry' = [dir |-> PDIR, out |-> POUT, ren |-> PREN]
    /\ snap' = NoSnap
    /\ prev' = "other"
    /\ irq' = NoIrq
    /\ UNCHANGED <<cfg, build, ports, save, usci, usi, cpu, initialized, selInit, isrCount>>

\* the caller enters spi_transfer9(inw), in a build that defines it
Transfer9Call ==
    /\ pc = "idle" /\ ~CPUOFF /\ initialized
    /\ HasTransfer9(cfg)
    /\ \E v \in TestWords9 : inw' = v
    /\ ret' = 0 /\ fn' = "t9" /\ retw' = 0 /\ wire' = <<>>
    /\ pc' = IF cfg = "USI" THEN "u_ie" ELSE "t9_save"
    /\ entry' = [dir |-> PDIR, out |-> POUT, ren |-> PREN]
    /\ snap' = NoSnap
    /\ prev' = "other"
    /\ irq' = NoIrq
    /\ UNCHANGED <<cfg, build, ports, save, usci, usi, cpu, initialized, selInit, isrCount>>

\* ------------------------------------------------------ the USCI shifter
\* A write of UCx0TXBUF: out of reset and idle, the USCI loads its shift
\* register and starts clocking eight bits.
StartTx(u, b) ==
    IF ~u.swrst /\ u.bits = 0
    THEN [u EXCEPT !.txbuf = b, !.txsr = b, !.rxsr = 0, !.bits = 8]
    ELSE [u EXCEPT !.txbuf = b]

\* what the device on the bus answers to the level on data-out: data-out is
\* wired to data-in
Loopback(level) == level

\* One clock pulse of the USCI: the most significant bit of the shift register
\* goes out on SIMO, SOMI is sampled; after the eighth pulse the byte is put
\* into UCx0RXBUF and UCx0RXIFG is set (what lines 104, 115, 119 wait for).
UsciShift ==
    /\ cfg # "USI" /\ usci.bits > 0 /\ ~usci.swrst
    /\ LET out == usci.txsr \div 128
           driven == Role(SimoPin(cfg)) = "periph" /\ Role(ClkPin(cfg)) = "periph"
           heard == driven /\ Role(SomiPin(cfg)) = "periph"
       IN  \E in \in (IF heard THEN {Loopback(out)} ELSE {0, 1}) :
              LET rx == (usci.rxsr * 2 + in) % 256
              IN  /\ usci' = [usci EXCEPT !.txsr = (@ * 2) % 256, !.rxsr = rx,
                                          !.bits = @ - 1,
                                          !.rxbuf = IF usci.bits = 1 THEN rx ELSE @,
                                          !.rxifg = IF usci.bits = 1 THEN TRUE ELSE @]
                  /\ wire' = Append(wire, <<"bit", IF driven THEN out ELSE 2, in>>)
    /\ UNCHANGED <<cfg, build, pc, fn, inw, retw, ret, ports, save, usi, cpu, ghosts, isrCount, irq>>

\* ------------------------------------------------- spi_transfer (USCI)
\* UCx0TXBUF = inb
UsciTx ==
    /\ pc = "t8_tx" /\ ~CPUOFF
    /\ usci' = StartTx(usci, LoByte(inw))
    /\ wire' = Append(wire, <<"start", 8, LoByte(inw)>>)
    /\ pc' = "t8_wait"
    /\ UNCHANGED <<cfg, build, fn, inw, retw, ret, ports, save, usi, cpu, ghosts, isrCount, irq>>

\* while (!(IFG2 & UCx0RXIFG)) ;   the loop is left once the flag is set
UsciWait ==
    /\ pc = "t8_wait" /\ ~CPUOFF
    /\ usci.rxifg
    /\ pc' = "t8_rd"
    /\ UNCHANGED <<cfg, build, fn, inw, retw, ret, ports, save, usci, usi, cpu, wire, ghosts,
                   isrCount, irq>>

\* return UCx0RXBUF: the read clears UCx0RXIFG.  Called from spi_transfer9
\* the byte is ORed into retw (lines 153, 225, ...).
C14_Mut_ReadFlag == usci.rxifg
UsciReadFlag == FALSE
UsciRead ==
    /\ pc = "t8_rd" /\ ~CPUOFF
    /\ usci' = [usci EXCEPT !.rxifg = UsciReadFlag]
    /\ IF fn = "t9"
       THEN /\ retw' = OrLow(retw, usci.rxbuf)
            /\ pc' = "t9_ret"
            /\ ret' = ret
       ELSE /\ ret' = usci.rxbuf
            /\ pc' = "idle"
            /\ retw' = retw
    /\ UNCHANGED <<cfg, build, fn, inw, ports, save, usi, cpu, wire, ghosts, isrCount, irq>>

\* ----------------------------------------------- spi_transfer16 (USCI)
\* the byte spi_transfer16 sends first (inw8[1]) and second (inw8[0])
C5_Mut_T16Byte(k, w) == IF k = 1 THEN LoByte(w) ELSE HiByte(w)
T16Byte(k, w) == IF k = 1 THEN HiByte(w) ELSE LoByte(w)

\* UCx0TXBUF = inw8[1]; ... UCx0TXBUF = inw8[0];
T16Tx ==
    /\ pc \in {"t16_tx1", "t16_tx2"} /\ ~CPUOFF
    /\ LET k == IF pc = "t16_tx1" THEN 1 ELSE 2
       IN  /\ usci' = StartTx(usci, T16Byte(k, inw))
           /\ wire' = Append(wire, <<"start", 8, T16Byte(k, inw)>>)
           /\ pc' = IF k = 1 THEN "t16_wait1" ELSE "t16_wait2"
    /\ UNCHANGED <<cfg, build, fn, inw, retw, ret, ports, save, usi, cpu, ghosts, isrCount, irq>>

\* while (!(IFG2 & UCx0RXIFG)) ;
T16Wait ==
    /\ pc \in {"t16_wait1", "t16_wait2"} /\ ~CPUOFF
    /\ usci.rxifg
    /\ pc' = IF pc = "t16_wait1" THEN "t16_rd1" ELSE "t16_rd2"
    /\ UNCHANGED <<cfg, build, fn, inw, retw, ret, ports, save, usci, usi, cpu, wire, ghosts,
                   isrCount, irq>>

\* retw8[1] = UCx0RXBUF; ... retw8[0] = UCx0RXBUF;
T16Store(k, w, b) == IF k = 1 THEN b * 256 + LoByte(w) ELSE HiByte(w) * 256 + b
T16Read ==
    /\ pc \in {"t16_rd1", "t16_rd2"} /\ ~CPUOFF
    /\ usci' = [usci EXCEPT !.rxifg = FALSE]
    /\ retw' = T16Store(IF pc = "t16_rd1" THEN 1 ELSE 2, retw, usci.rxbuf)
    /\ pc' = IF pc = "t16_rd1" THEN "t16_tx2" ELSE "t16_ret"
    /\ UNCHANGED <<cfg, build, fn, inw, ret, ports, save, usi, cpu, wire, ghosts, isrCount, irq>>

\* return retw;
T16Return ==
    /\ pc = "t16_ret" /\ ~CPUOFF
    /\ ret' = retw
    /\ pc' = "idle"
    /\ UNCHANGED <<cfg, build, fn, inw, retw, ports, save, usci, usi, cpu, wire, ghosts, isrCount, irq>>

\* ------------------------------------- spi_transfer/16/9 on the USI
\* USICTL1 |= USIIE
C12_Mut_UsiIe == {"USIIE"}
UsiIeValue == usi.ctl1 \cup {"USIIE"}
UsiIe ==
    /\ pc = "u_ie" /\ ~CPUOFF
    /\ usi' = [usi EXCEPT !.ctl1 = UsiIeValue]
    /\ pc' = "u_sr"
    /\ UNCHANGED <<cfg, build, fn, inw, retw, ret, ports, save, usci, cpu, wire, ghosts, isrCount, irq>>

\* USISRL = inb (the high byte of USISR stays) / USISR = inw
UsiLoadValue(f, sr, w) == IF f = "t8" THEN (sr \div 256) * 256 + LoByte(w) ELSE w
UsiLoad ==
    /\ pc = "u_sr" /\ ~CPUOFF
    /\ usi' = [usi EXCEPT !.sr = UsiLoadValue(fn, usi.sr, inw)]
    /\ pc' = "u_cnt"
    /\ UNCHANGED <<cfg, build, fn, inw, retw, ret, ports, save, usci, cpu, wire, ghosts, isrCount, irq>>

\* USICNT = 8 / 16 | USI16B / 9 | USI16B
UsiCountValue(f) == IF f = "t8" THEN 8 ELSE IF f = "t16" THEN 16 ELSE 9
\* a write of a count above zero clears USIIFG and starts the shifting
UsiCount ==
    /\ pc = "u_cnt" /\ ~CPUOFF
    /\ usi' = [usi EXCEPT !.cnt = UsiCountValue(fn), !.b16 = (fn # "t8"),
                          !.ctl1 = @ \ {"USIIFG"}]
    /\ wire' = Append(wire, <<"start", UsiCountValue(fn), usi.sr>>)
    /\ pc' = "u_lpm"
    /\ UNCHANGED <<cfg, build, fn, inw, retw, ret, ports, save, usci, cpu, ghosts, isrCount, irq>>

\* LPM0: the CPU stops until an interrupt handler clears CPUOFF on its exit
UsiSleep ==
    /\ pc = "u_lpm" /\ ~CPUOFF
    /\ CPUOFF' = TRUE
    /\ pc' = "u_chk"
    /\ UNCHANGED <<cfg, build, fn, inw, retw, ret, ports, save, usci, usi, GIE, wire, ghosts,
                   isrCount, irq>>

\* while (USICNT & 0x1F)
UsiCheck ==
    /\ pc = "u_chk" /\ ~CPUOFF
    /\ pc' = IF usi.cnt % 32 # 0 THEN "u_lpm" ELSE "u_ieoff"
    /\ UNCHANGED <<cfg, build, fn, inw, retw, ret, ports, save, usci, usi, cpu, wire, ghosts,
                   isrCount, irq>>

\* USICTL1 &= ~USIIE
UsiIeOff ==
    /\ pc = "u_ieoff" /\ ~CPUOFF
    /\ usi' = [usi EXCEPT !.ctl1 = @ \ {"USIIE"}]
    /\ pc' = "u_ret"
    /\ UNCHANGED <<cfg, build, fn, inw, retw, ret, ports, save, usci, cpu, wire, ghosts, isrCount, irq>>

\* return USISRL / return USISR
UsiResult(f, sr) == IF f = "t8" THEN sr % 256 ELSE sr
UsiReturn ==
    /\ pc = "u_ret" /\ ~CPUOFF
    /\ ret' = UsiResult(fn, usi.sr)
    /\ pc' = "idle"
    /\ UNCHANGED <<cfg, build, fn, inw, retw, ports, save, usci, usi, cpu, wire, ghosts, isrCount, irq>>

\* One clock pulse of the USI: the top bit of the shift register (bit 15 with
\* USI16B, else bit 7 of USISRL) goes out on SDO, SDI is shifted in at bit 0,
\* USICNT counts down; reaching zero sets USIIFG.
UsiShift ==
    /\ cfg = "USI" /\ usi.cnt > 0
    /\ "USISWRST" \notin usi.ctl0 /\ "USIMST" \in usi.ctl0
    /\ LET low == usi.sr % 256
           out == IF usi.b16 THEN usi.sr \div 32768 ELSE low \div 128
           heard == {"USIPE7", "USIPE6", "USIPE5", "USIOE"} \subseteq usi.ctl0
       IN  \E in \in (IF heard THEN {Loopback(out)} ELSE {0, 1}) :
              /\ usi' = [usi EXCEPT
                           !.sr = IF usi.b16 THEN (@ * 2 + in) % 65536
                                  ELSE (@ \div 256) * 256 + ((low * 2 + in) % 256),
                           !.cnt = @ - 1,
                           !.ctl1 = IF usi.cnt = 1 THEN @ \cup {"USIIFG"} ELSE @]
              /\ wire' = Append(wire, <<"bit", IF heard THEN out ELSE 2, in>>)
    /\ UNCHANGED <<cfg, build, pc, fn, inw, retw, ret, ports, save, usci, cpu, ghosts, isrCount, irq>>

\* The USI interrupt handler the LPM0 wait relies on: taken when USIIE and
\* USIIFG are set with interrupts enabled; it clears USIIFG and leaves LPM0
\* on exit.
UsiIsr ==
    /\ cfg = "USI" /\ GIE
    /\ {"USIIE", "USIIFG"} \subseteq usi.ctl1
    /\ usi' = [usi EXCEPT !.ctl1 = @ \ {"USIIFG"}]
    /\ CPUOFF' = FALSE
    /\ UNCHANGED <<cfg, build, pc, fn, inw, retw, ret, ports, save, usci, GIE, wire, ghosts,
                   isrCount, irq>>

\* ------------------------------------- spi_transfer9 by pin manipulation
\* pNren_save = PxREN; pNout_save = PxOUT; pNdir_save = PxDIR;
T9Save ==
    /\ pc = "t9_save" /\ ~CPUOFF
    /\ save' = [dir |-> PDIR, out |-> POUT, ren |-> PREN]
    /\ pc' = "t9_ren"
    /\ UNCHANGED <<cfg, build, fn, inw, retw, ret, ports, usci, usi, cpu, wire, ghosts, isrCount, irq>>

\* PxREN &= ~pins
T9ClearRen ==
    /\ pc = "t9_ren" /\ ~CPUOFF
    /\ PREN' = Bic(PREN, SpiMask(cfg))
    /\ pc' = "t9_out"
    /\ UNCHANGED <<cfg, build, fn, inw, retw, ret, PSEL, PSEL2, PDIR, POUT, save, usci, usi, cpu,
                   wire, ghosts, isrCount, irq>>

\* PxOUT &= ~pins
T9ClearOut ==
    /\ pc = "t9_out" /\ ~CPUOFF
    /\ POUT' = Bic(POUT, SpiMask(cfg))
    /\ wire' = Watch(PSEL, PSEL2, PDIR, POUT')
    /\ pc' = "t9_dir"
    /\ UNCHANGED <<cfg, build, fn, inw, retw, ret, PSEL, PSEL2, PDIR, PREN, save, usci, usi, cpu,
                   ghosts, isrCount, irq>>

\* PxDIR = (PxDIR & ~pins) | clock | data-out; the F5529 USCI_A backend has
\* P3DIR = (P3DIR | ~(BIT3 | BIT4)) | BIT3; P2DIR |= BIT7;  (line 464)
T9DirValue(c, dir) ==
    IF c = "USCI_A_F5529_MS"
    THEN [p \in Ports |->
            CASE p = "P3" -> (dir[p] \cup (AllBits \ {BIT3, BIT4})) \cup {BIT3}
              [] p = "P2" -> dir[p] \cup {BIT7}
              [] OTHER -> dir[p]]
    ELSE [p \in Ports |->
            (dir[p] \ SpiMask(c)[p])
              \cup {pin[2] : pin \in {q \in {ClkPin(c), SimoPin(c)} : q[1] = p}}]
T9SetDir ==
    /\ pc = "t9_dir" /\ ~CPUOFF
    /\ PDIR' = T9DirValue(cfg, PDIR)
    /\ wire' = Watch(PSEL, PSEL2, PDIR', POUT)
    /\ pc' = "t9_sel"
    /\ UNCHANGED <<cfg, build, fn, inw, retw, ret, PSEL, PSEL2, POUT, PREN, save, usci, usi, cpu,
                   ghosts, isrCount, irq>>

\* PxSEL &= ~pins
T9ClearSel ==
    /\ pc = "t9_sel" /\ ~CPUOFF
    /\ PSEL' = Bic(PSEL, SpiMask(cfg))
    /\ wire' = Watch(PSEL', PSEL2, PDIR, POUT)
    /\ pc' = IF Family(cfg) = "F5" THEN "t9_bit" ELSE "t9_sel2"
    /\ UNCHANGED <<cfg, build, fn, inw, retw, ret, PSEL2, PDIR, POUT, PREN, save, usci, usi, cpu,
                   ghosts, isrCount, irq>>

\* PxSEL2 &= ~pins (F2xxx/G2xx3 and G2xx4/G2xx5)
T9ClearSel2 ==
    /\ pc = "t9_sel2" /\ ~CPUOFF
    /\ PSEL2' = Bic(PSEL2, SpiMask(cfg))
    /\ wire' = Watch(PSEL, PSEL2', PDIR, POUT)
    /\ pc' = "t9_bit"
    /\ UNCHANGED <<cfg, build, fn, inw, retw, ret, PSEL, PDIR, POUT, PREN, save, usci, usi, cpu,
                   ghosts, isrCount, irq>>

\* if (inw & 0x0100) PxOUT |= data-out;
T9BitValue(w) == BitOf(w, 8)
T9DriveBit ==
    /\ pc = "t9_bit" /\ ~CPUOFF
    /\ POUT' = IF T9BitValue(inw) = 1
               THEN [POUT EXCEPT ![SimoPin(cfg)[1]] = @ \cup {SimoPin(cfg)[2]}]
               ELSE POUT
    /\ wire' = Watch(PSEL, PSEL2, PDIR, POUT')
    /\ pc' = "t9_clkhi"
    /\ UNCHANGED <<cfg, build, fn, inw, retw, ret, PSEL, PSEL2, PDIR, PREN, save, usci, usi, cpu,
                   ghosts, isrCount, irq>>

\* PxOUT |= clock;
T9ClockHigh ==
    /\ pc = "t9_clkhi" /\ ~CPUOFF
    /\ POUT' = [POUT EXCEPT ![ClkPin(cfg)[1]] = @ \cup {ClkPin(cfg)[2]}]
    /\ wire' = Watch(PSEL, PSEL2, PDIR, POUT')
    /\ pc' = "t9_sample"
    /\ UNCHANGED <<cfg, build, fn, inw, retw, ret, PSEL, PSEL2, PDIR, PREN, save, usci, usi, cpu,
                   ghosts, isrCount, irq>>

\* What PxIN can show for a pin.  The data-in pin is wired to the data-out
\* line; if it is itself an output at another level than that line, or the
\* line is not driven, the level read is not determined.  Any other pin shows
\* its own output level, or as an input whatever is connected to it.
InLevels(pin) ==
    LET mine == IF pin[2] \in POUT[pin[1]] THEN 1 ELSE 0
        isOut == pin[2] \in PDIR[pin[1]]
        line == Level(cfg, PSEL, PSEL2, PDIR, POUT, SimoPin(cfg))
    IN  IF pin = SomiPin(cfg)
        THEN IF line \notin {"L", "H"} THEN {0, 1}
             ELSE IF isOut /\ mine # Loopback(IF line = "H" THEN 1 ELSE 0) THEN {0, 1}
             ELSE {Loopback(IF line = "H" THEN 1 ELSE 0)}
        ELSE IF isOut THEN {mine} ELSE {0, 1}

\* if (PxIN & BITn) retw |= 0x0100;
T9Sample ==
    /\ pc = "t9_sample" /\ ~CPUOFF
    /\ \E lvl \in InLevels(SamplePin(cfg)) :
          /\ retw' = IF lvl = 1 THEN 256 ELSE retw
          /\ wire' = Append(wire, <<"sample", SamplePin(cfg), lvl>>)
    /\ pc' = "t9_clklo"
    /\ UNCHANGED <<cfg, build, fn, inw, ret, ports, save, usci, usi, cpu, ghosts, isrCount, irq>>

\* PxOUT &= ~clock;
T9ClockLow ==
    /\ pc = "t9_clklo" /\ ~CPUOFF
    /\ POUT' = [POUT EXCEPT ![ClkPin(cfg)[1]] = @ \ {ClkPin(cfg)[2]}]
    /\ wire' = Watch(PSEL, PSEL2, PDIR, POUT')
    /\ pc' = "t9_rsel"
    /\ UNCHANGED <<cfg, build, fn, inw, retw, ret, PSEL, PSEL2, PDIR, PREN, save, usci, usi, cpu,
                   ghosts, isrCount, irq>>

\* PxSEL |= pins
C4_Mut_SetSel == PSEL
T9SetSelValue == Bis(PSEL, SpiMask(cfg))
T9SetSel ==
    /\ pc = "t9_rsel" /\ ~CPUOFF
    /\ PSEL' = T9SetSelValue
    /\ wire' = Watch(PSEL', PSEL2, PDIR, POUT)
    /\ pc' = IF Family(cfg) = "F2" THEN "t9_rsel2" ELSE "t9_rdir"
    /\ UNCHANGED <<cfg, build, fn, inw, retw, ret, PSEL2, PDIR, POUT, PREN, save, usci, usi, cpu,
                   ghosts, isrCount, irq>>

\* P1SEL2 |= pins (F2xxx/G2xx3 only)
T9SetSel2 ==
    /\ pc = "t9_rsel2" /\ ~CPUOFF
    /\ PSEL2' = Bis(PSEL2, SpiMask(cfg))
    /\ wire' = Watch(PSEL, PSEL2', PDIR, POUT)
    /\ pc' = "t9_rdir"
    /\ UNCHANGED <<cfg, build, fn, inw, retw, ret, PSEL, PDIR, POUT, PREN, save, usci, usi, cpu,
                   ghosts, isrCount, irq>>

\* PxDIR = pNdir_save;
C2_Mut_RestoreDir == save.out
T9RestoreDirValue == save.dir
T9RestoreDir ==
    /\ pc = "t9_rdir" /\ ~CPUOFF
    /\ PDIR' = T9RestoreDirValue
    /\ wire' = Watch(PSEL, PSEL2, PDIR', POUT)
    /\ pc' = "t9_rout"
    /\ UNCHANGED <<cfg, build, fn, inw, retw, ret, PSEL, PSEL2, POUT, PREN, save, usci, usi, cpu,
                   ghosts, isrCount, irq>>

\* PxOUT = pNout_save;
T9RestoreOut ==
    /\ pc = "t9_rout" /\ ~CPUOFF
    /\ POUT' = save.out
    /\ wire' = Watch(PSEL, PSEL2, PDIR, POUT')
    /\ pc' = "t9_rren"
    /\ UNCHANGED <<cfg, build, fn, inw, retw, ret, PSEL, PSEL2, PDIR, PREN, save, usci, usi, cpu,
                   ghosts, isrCount, irq>>

\* PxREN = pNren_save;  then spi_transfer((uint8_t)(inw & 0x00FF)) is called
T9RestoreRen ==
    /\ pc = "t9_rren" /\ ~CPUOFF
    /\ PREN' = save.ren
    /\ pc' = "t8_tx"
    /\ UNCHANGED <<cfg, build, fn, inw, retw, ret, PSEL, PSEL2, PDIR, POUT, save, usci, usi, cpu,
                   wire, ghosts, isrCount, irq>>

\* return retw;
T9Return ==
    /\ pc = "t9_ret" /\ ~CPUOFF
    /\ ret' = retw
    /\ pc' = "idle"
    /\ UNCHANGED <<cfg, build, fn, inw, retw, ports, save, usci, usi, cpu, wire, ghosts, isrCount, irq>>

\* ------------------------------------------------------------ environment
\* Some other interrupt handler of the application (a timer, a port): it is
\* taken whenever interrupts are enabled and toggles the output level of a
\* pin of the SPI port that is not an SPI pin.
EnvIsr ==
    /\ GIE /\ isrCount < MaxIsr
    /\ pc # "idle"
    /\ POUT' = [POUT EXCEPT ![OtherPin(cfg)[1]] =
                   IF OtherPin(cfg)[2] \in @ THEN @ \ {OtherPin(cfg)[2]}
                   ELSE @ \cup {OtherPin(cfg)[2]}]
    /\ isrCount' = isrCount + 1
    /\ irq' = [ran |-> TRUE, high |-> OtherPin(cfg)[2] \in POUT'[OtherPin(cfg)[1]]]
    /\ UNCHANGED <<cfg, build, pc, fn, inw, retw, ret, PSEL, PSEL2, PDIR, PREN, save, usci,
                   usi, cpu, wire, ghosts>>

\* ------------------------------------------------------------- the build
\* everything but the build: the program does not run while it is built
run == <<pc, fn, inw, retw, ret, ports, save, usci, usi, cpu, wire, ghosts, isrCount, irq>>

\* A build of msp430_spi.c under some set of macros, before it starts.
InitBuild ==
    /\ macros \in SUBSET AllMacros
    /\ stage = "source"
    /\ defs = [f \in EntryPoints |-> 0]
    /\ cfg = CfgOf(macros)
    /\ pc = "idle" /\ fn = "none" /\ inw = 0 /\ retw = 0 /\ ret = 0
    /\ PDIR = PM({}, {}, {}) /\ POUT = PM({}, {}, {}) /\ PREN = PM({}, {}, {})
    /\ PSEL = PM({}, {}, {}) /\ PSEL2 = PM({}, {}, {})
    /\ usci = UsciPuc /\ usi = UsiPuc
    /\ save = NoSave
    /\ GIE = TRUE /\ CPUOFF = FALSE
    /\ wire = <<>>
    /\ initialized = FALSE
    /\ entry = NoSave
    /\ snap = NoSnap
    /\ selInit = FuncSel
    /\ prev = "other"
    /\ isrCount = 0
    /\ irq = NoIrq

\* The preprocessor resolves the guards: what is left of the file holds the
\* definitions of the blocks whose guard is true.  No guard of the file ends
\* in an #error.
Preprocess ==
    /\ stage = "source"
    /\ defs' = [f \in EntryPoints |-> DefCount(macros, f)]
    /\ stage' = "preprocessed"
    /\ UNCHANGED <<cfg, macros, run>>

\* The compiler accepts the translation unit: no function is defined twice.
CompileOk ==
    /\ stage = "preprocessed"
    /\ \A f \in EntryPoints : defs[f] <= 1
    /\ stage' = "compiled"
    /\ UNCHANGED <<cfg, macros, defs, run>>

\* The compiler rejects it: some entry point is defined more than once.
CompileError ==
    /\ stage = "preprocessed"
    /\ \E f \in EntryPoints : defs[f] > 1
    /\ stage' = "rejected"
    /\ UNCHANGED <<cfg, macros, defs, run>>

\* -------------------------------------------------------- specifications
Next ==
    \/ InitCall \/ InitSel \/ InitSel2 \/ InitReset \/ InitMctl \/ InitCtl0
    \/ InitBr0 \/ InitBr1 \/ InitCtl1
    \/ UsiInitReset \/ UsiInitCtl1 \/ UsiInitCkctl \/ UsiInitCtl0 \/ UsiInitSr
    \/ Transfer8Call \/ Transfer16Call \/ Transfer9Call
    \/ UsciShift \/ UsciTx \/ UsciWait \/ UsciRead
    \/ T16Tx \/ T16Wait \/ T16Read \/ T16Return
    \/ UsiIe \/ UsiLoad \/ UsiCount \/ UsiSleep \/ UsiCheck \/ UsiIeOff \/ UsiReturn
    \/ UsiShift \/ UsiIsr
    \/ T9Save \/ T9ClearRen \/ T9ClearOut \/ T9SetDir \/ T9ClearSel \/ T9ClearSel2
    \/ T9DriveBit \/ T9ClockHigh \/ T9Sample \/ T9ClockLow \/ T9SetSel \/ T9SetSel2
    \/ T9RestoreDir \/ T9RestoreOut \/ T9RestoreRen \/ T9Return

\* sequential use, as the library is written for
Spec == Init /\ [][Next]_vars

\* the same with the application's other interrupt handlers
NextIrq == Next \/ EnvIsr
SpecIrq == Init /\ [][NextIrq]_vars

\* the build of the file, under every set of macros
NextBuild == Preprocess \/ CompileOk \/ CompileError
SpecBuild == InitBuild /\ [][NextBuild]_vars

\* ================================================================ claims
\* the steps of spi_transfer9 at which the pins have been reconfigured and
\* are not yet reconnected (after PxSEL/PxSEL2 are cleared, before PxSEL |= )
BitBangPcs == {"t9_bit", "t9_clkhi", "t9_sample", "t9_clklo", "t9_rsel"}
\* the steps of spi_transfer9 between its first and its last function-select write
PinPhasePcs == BitBangPcs \cup {"t9_sel2", "t9_rsel2"}

InPort(reg, pin) == pin[2] \in reg[pin[1]]

\* the data-out and data-in bits of the clock pulses the analyser recorded
PulsesOf(w) == SelectSeq(w, LAMBDA e : e[1] = "bit")
OutBits(w) == [i \in 1 .. Len(PulsesOf(w)) |-> PulsesOf(w)[i][2]]
InBits(w) == [i \in 1 .. Len(PulsesOf(w)) |-> PulsesOf(w)[i][3]]
\* a byte, most significant bit first
Bits8(b) == [i \in 1 .. 8 |-> BitOf(b, 8 - i)]
\* the number a bit sequence spells, most significant bit first
RECURSIVE SeqValue(_)
SeqValue(q) == IF q = <<>> THEN 0 ELSE 2 * SeqValue(SubSeq(q, 1, Len(q) - 1)) + q[Len(q)]

\* C1: with data-out wired to data-in, spi_transfer9(v) returns v for every
\* 9-bit v, in every backend (the claim as made).
C1_Transfer9Loopback ==
    (pc = "idle" /\ fn = "t9" /\ inw \in 0 .. 511) => ret = inw

\* C2: when a pin-manipulating spi_transfer9 returns, PxDIR, PxOUT and PxREN
\* hold what they held when it was entered, and a spi_transfer called right
\* after it returns the loopback value.
C2_PinStateRestored ==
    /\ (BitBang(cfg) /\ fn = "t9" /\ pc = "idle")
          => (PDIR = entry.dir /\ POUT = entry.out /\ PREN = entry.ren)
    /\ (BitBang(cfg) /\ fn = "t8" /\ prev = "t9" /\ pc = "idle") => ret = inw

C2_Witness ==
    /\ cfg = "USCI_A_F5529_MS" /\ fn = "t8" /\ prev = "t9" /\ pc = "idle"
    /\ ret = 165 /\ inw = 165
    /\ PDIR = entry.dir /\ BIT4 \in PDIR["P3"] /\ PDIR # POUT

\* C3: from the end of the reconfiguration to the reconnection the clock and
\* data-out pins are general-purpose outputs and the data-in pin is a
\* general-purpose input without pull resistor, whatever PxDIR held before
\* (the claim as made).
C3_BitBangPinRoles ==
    (BitBang(cfg) /\ pc \in BitBangPcs) =>
        /\ Role(ClkPin(cfg)) = "gpio" /\ InPort(PDIR, ClkPin(cfg))
        /\ Role(SimoPin(cfg)) = "gpio" /\ InPort(PDIR, SimoPin(cfg))
        /\ Role(SomiPin(cfg)) = "gpio" /\ ~InPort(PDIR, SomiPin(cfg))
        /\ ~InPort(PREN, SomiPin(cfg))

\* C4: once spi_init has returned, the SPI pins are routed to the peripheral,
\* with the function-select registers as spi_init left them, at every point
\* outside the pin phase of spi_transfer9 (so at every return); a pin is in
\* general-purpose role only inside that phase.
C4_PeripheralRoleOutsideBitBang ==
    (initialized /\ pc \notin PinPhasePcs) => (AllPeripheral /\ FuncSel = selInit)

C4_Witness ==
    /\ initialized /\ pc = "idle" /\ fn = "t9" /\ cfg = "USCI_A_G4"
    /\ AllPeripheral /\ FuncSel = selInit /\ PSEL["P3"] # {BIT0, BIT4, BIT5}

\* C5: spi_transfer16(v) clocks out the bits of the high byte of v and then
\* those of the low byte, as spi_transfer does for one byte, and returns the
\* first received byte times 256 plus the second; under loopback that is v.
C5_Transfer16IsTwoTransfer8 ==
    /\ (pc = "idle" /\ fn = "t16") =>
          /\ OutBits(wire) = Bits8(HiByte(inw)) \o Bits8(LoByte(inw))
          /\ ret = SeqValue(SubSeq(InBits(wire), 1, 8)) * 256
                     + SeqValue(SubSeq(InBits(wire), 9, 16))
          /\ ret = inw
    /\ (pc = "idle" /\ fn = "t8") =>
          /\ OutBits(wire) = Bits8(inw)
          /\ ret = SeqValue(InBits(wire))

C5_Witness ==
    /\ pc = "idle" /\ fn = "t16" /\ inw = 4660 /\ ret = 4660
    /\ OutBits(wire) = <<0, 0, 0, 1, 0, 0, 1, 0, 0, 0, 1, 1, 0, 1, 0, 0>>

\* C6: spi_init twice in succession leaves the configuration, the reset
\* state, the pending flags and the pin routing as one spi_init left them,
\* and a spi_transfer after either returns the same (the loopback) value.
C6_InitIdempotent ==
    /\ [][(fn = "init" /\ pc # "idle" /\ pc' = "idle" /\ snap.valid)
             => ConfigState' = snap.was]_vars
    /\ []((pc = "idle" /\ fn = "t8" /\ prev \in {"init1", "init2"}) => ret = inw)

C6_Witness ==
    /\ pc = "idle" /\ fn = "t8" /\ prev = "init2" /\ inw = 85 /\ ret = 85
    /\ cfg = "USCI_B_G4" /\ PSEL["P3"] # {BIT1, BIT2, BIT3}

\* the steps of spi_init, those that write a configuration field, and all
\* that write a register other than the one asserting reset
InitPcs == {"i_sel", "i_sel2", "i_rst", "i_mctl", "i_ctl0", "i_br0", "i_br1", "i_ctl1",
            "u_rst", "u_ctl1", "u_ckctl", "u_ctl0", "u_isr"}
ConfigWritePcs == {"i_mctl", "i_ctl0", "i_br0", "i_br1", "i_ctl1",
                   "u_ctl1", "u_ckctl", "u_ctl0"}
WritePcs == InitPcs \ {"i_rst", "u_rst"}

\* the configuration spi_init is to establish is in place
ConfigDone ==
    IF cfg = "USI"
    THEN /\ "USICKPH" \in usi.ctl1 /\ "USIMST" \in usi.ctl0 /\ "USILSB" \notin usi.ctl0
         /\ usi.ssel = 2 /\ usi.div = 0
    ELSE /\ usci.ctl0 = {"UCCKPH", "UCMSB", "UCMST", "UCSYNC"}
         /\ usci.ssel = 2 /\ usci.br0 = 1 /\ usci.br1 = 0
         /\ (IsUsciA(cfg) => usci.mctl = 0)

\* C7 as made: every configuration write, pin-routing write and other
\* register write of spi_init happens while reset is asserted, and releasing
\* reset is the last step of spi_init.
C7_InitOrderAsClaimed ==
    [][(pc \in InitPcs /\ pc' # pc) =>
          /\ (pc \in WritePcs => InReset)
          /\ ((InReset /\ ~InReset') => pc' = "idle")]_vars

\* C7 as amended: every configuration-field write of spi_init happens while
\* reset is asserted; when reset is released the configuration is complete and
\* the pins are routed to the peripheral; spi_init returns with reset released.
C7_InitOrder ==
    [][(pc \in InitPcs /\ pc' # pc) =>
          /\ (pc \in ConfigWritePcs => InReset)
          /\ ((InReset /\ ~InReset') => (ConfigDone' /\ AllPeripheral'))
          /\ (pc' = "idle" => (~InReset' /\ ConfigDone' /\ AllPeripheral'))]_vars

C7_Witness ==
    /\ pc = "idle" /\ fn = "init" /\ snap.n = 2 /\ cfg = "USCI_A_F2"
    /\ ~InReset /\ ConfigDone /\ AllPeripheral

\* C8: on the USI the sleeping CPU is always woken: whenever it is in LPM0,
\* either the USI is still counting or the completion interrupt is pending
\* (the claim as made).
C8_SleepIsAlwaysWoken ==
    (cfg = "USI" /\ CPUOFF) =>
        (usi.cnt > 0 \/ (GIE /\ {"USIIE", "USIIFG"} \subseteq usi.ctl1))

\* what the analyser saw of the hand-made pulse: the recorded events without
\* the peripheral's own clock pulses and without the moments in which the
\* lines are not driven; of a sample, which pin was read
C9_Seen ==
    LET F == SelectSeq(wire, LAMBDA e : e[1] # "bit" /\ ~(e[1] = "line" /\ e[2] = "Z"))
    IN  [i \in 1 .. Len(F) |-> IF F[i][1] = "sample" THEN <<"sample", F[i][2]>> ELSE F[i]]

\* the order of events C9 states, d being bit 8 of the argument
C9_Expected(c, w) ==
    LET d == IF BitOf(w, 8) = 1 THEN "H" ELSE "L"
    IN  <<<<"line", "L", "L">>>>
          \o (IF d = "H" THEN <<<<"line", "L", "H">>>> ELSE <<>>)
          \o <<<<"line", "H", d>>, <<"sample", SomiPin(c)>>, <<"line", "L", d>>,
               <<"line", "P", "P">>, <<"start", 8, LoByte(w)>>>>

\* C9: in every pin-manipulating spi_transfer9 clock and data-out go low,
\* data-out takes bit 8, the clock rises, data-in is sampled, the clock falls,
\* the pins go back to the peripheral and the transfer of the low byte starts;
\* the clock makes that one pulse only (the claim as made).
C9_PulseOrder ==
    (BitBang(cfg) /\ fn = "t9" /\ pc \in {"t8_wait", "t8_rd", "t9_ret", "idle"})
        => C9_Seen = C9_Expected(cfg, inw)

\* the steps of spi_transfer9 from after its first pin write to before its
\* last restoring write
CriticalPcs == {"t9_out", "t9_dir", "t9_sel", "t9_sel2", "t9_bit", "t9_clkhi",
                "t9_sample", "t9_clklo", "t9_rsel", "t9_rsel2", "t9_rdir", "t9_rout",
                "t9_rren"}

\* C10: no interrupt handler runs between the first pin write and the last
\* restoring write of spi_transfer9, and interrupts are enabled during the
\* 8-bit transfer that follows (the claim as made).
C10_BitBangIsCritical ==
    /\ [][EnvIsr => pc \notin CriticalPcs]_vars
    /\ []((fn = "t9" /\ pc \in {"t8_tx", "t8_wait", "t8_rd"}) => GIE)

\* C11: in every supported build configuration the translation unit holds
\* exactly one definition of each of spi_init, spi_transfer, spi_transfer16
\* and spi_transfer9 (the claim as made).
C11_EntryPointsDefined ==
    (stage # "source" /\ \E c \in SupportedCfgs : macros = MacrosOf(c))
        => \A f \in EntryPoints : defs[f] = 1

\* the Peripheral Configuration fields: clock phase, clock polarity, bit
\* order, master role, synchronous mode, clock source and divisor
ConfigFields ==
    IF cfg = "USI"
    THEN [phase |-> "USICKPH" \in usi.ctl1, mode |-> "USII2C" \notin usi.ctl1,
          order |-> "USILSB" \notin usi.ctl0, master |-> "USIMST" \in usi.ctl0,
          ssel |-> usi.ssel, div |-> usi.div]
    ELSE [ctl0 |-> usci.ctl0, ssel |-> usci.ssel, br0 |-> usci.br0, br1 |-> usci.br1,
          mctl |-> usci.mctl]

\* C12: once spi_init has returned, no step of spi_transfer, spi_transfer16
\* or spi_transfer9 (nor of the hardware while they run) changes a
\* configuration field; the fields stay what spi_init wrote, also on the USI
\* whose USICTL1 holds both USIIE and USICKPH.
C12_TransfersKeepConfig ==
    /\ [][(initialized /\ fn' \in {"t8", "t16", "t9"}) => ConfigFields' = ConfigFields]_vars
    /\ []((initialized /\ fn \in {"t8", "t16", "t9"}) => ConfigDone)

C12_Witness ==
    /\ cfg = "USI" /\ initialized /\ fn = "t9" /\ pc = "idle"
    /\ "USICKPH" \in usi.ctl1 /\ "USIIE" \notin usi.ctl1 /\ ConfigDone

\* what spi_transfer9 put on the clock and data-out lines: the levels it drove
\* by hand, and the data-out bit of every clock pulse of the peripheral
C13_Driven ==
    <<SelectSeq(wire, LAMBDA e : e[1] = "line" /\ e[2] # "Z"), OutBits(wire)>>

\* what it received: the level it sampled by hand (none on the USI) and the
\* data-in bit of every clock pulse of the peripheral
C13_Sampled ==
    LET S == SelectSeq(wire, LAMBDA e : e[1] = "sample")
    IN  IF S = <<>> THEN 0 ELSE S[1][3]

\* the sequence the 9-bit value v is sent as: the hand-made pulse carrying
\* bit 8 and the byte v % 256 (pin-manipulating backends), nine bits of one
\* shift (USI)
T9Driven(c, v) ==
    LET d == IF BitOf(v, 8) = 1 THEN "H" ELSE "L"
    IN  IF c = "USI"
        THEN <<<<>>, <<0, 0, 0, 0, 0, 0, 0, BitOf(v, 8), BitOf(v, 7)>>>>
        ELSE <<<<<<"line", "L", "L">>>>
                 \o (IF d = "H" THEN <<<<"line", "L", "H">>>> ELSE <<>>)
                 \o <<<<"line", "H", d>>, <<"line", "L", d>>, <<"line", "P", "P">>>>,
               Bits8(LoByte(v))>>

\* the result for the 9-bit value v when the device answered with the
\* sampled level s and the bits q
T9Returned(c, v, s, q) ==
    IF c = "USI" THEN ((v % 128) * 512 + SeqValue(q)) % 65536
    ELSE 256 * s + SeqValue(q)

\* C13: what spi_transfer9(w) drives on clock and data-out, and what it
\* returns for a given answer of the device, are those of the low nine bits
\* of w: two arguments that agree on bits 0..8 cannot be told apart (the
\* claim as made).
C13_OnlyLowNineBitsMatter ==
    (fn = "t9" /\ pc = "idle") =>
        /\ C13_Driven = T9Driven(cfg, inw % 512)
        /\ ret = T9Returned(cfg, inw % 512, C13_Sampled, InBits(wire))

\* the first statement of spi_transfer, spi_transfer16 and spi_transfer9
EntryPcs == {"t8_tx", "t16_tx1", "t9_save", "u_ie"}
\* the completion flag is set (UCx0RXIFG, USIIFG); the shifter is at work
Pending == IF cfg = "USI" THEN "USIIFG" \in usi.ctl1 ELSE usci.rxifg
Busy == IF cfg = "USI" THEN usi.cnt > 0 ELSE usci.bits > 0

C15_SelectionChecked ==
    /\ stage \in {"preprocessed", "compiled"} => Cardinality(Blocks(macros)) = 1
    /\ (\E f \in EntryPoints : defs[f] > 0) => Cardinality(Blocks(macros)) = 1

\* C16: whatever the argument, spi_transfer9 returns a value in 0..511 whose
\* bit 8 is the level read from the data-in pin during the extra pulse (the
\* first bit shifted in, on the USI) and whose low byte is the byte the 8-bit
\* transfer received (the claim as made).
C16_ResultIsNineBits ==
    (fn = "t9" /\ pc = "idle") =>
        /\ ret \in 0 .. 511
        /\ IF cfg = "USI"
           THEN ret = SeqValue(InBits(wire))
           ELSE LET S == SelectSeq(wire, LAMBDA e : e[1] = "sample")
                IN  /\ Len(S) = 1 /\ S[1][2] = SomiPin(cfg)
                    /\ ret \div 256 = S[1][3]
                    /\ ret % 256 = SeqValue(InBits(wire))

\* the bits of a port register that belong to pins other than the SPI pins
Outside(reg) == [p \in Ports |-> reg[p] \ SpiMask(cfg)[p]]

\* C17: no step of a pin-manipulating spi_transfer9 changes the PxDIR, PxOUT,
\* PxREN, PxSEL or PxSEL2 bit of a pin that is not one of the three SPI pins
\* (the claim as made).
C17_OtherPinsUntouched ==
    [][(BitBang(cfg) /\ fn' = "t9") =>
          /\ Outside(PDIR') = Outside(PDIR) /\ Outside(POUT') = Outside(POUT)
          /\ Outside(PREN') = Outside(PREN)
          /\ Outside(PSEL') = Outside(PSEL) /\ Outside(PSEL2') = Outside(PSEL2)]_vars

\* C18: when an interrupt handler wrote the output level of a pin that shares
\* the port of the SPI pins while spi_transfer9 was executing, the pin has
\* that level when spi_transfer9 returns (the claim as made).
C18_ConcurrentWriteSurvives ==
    (BitBang(cfg) /\ fn = "t9" /\ pc = "idle" /\ irq.ran)
        => (InPort(POUT, OtherPin(cfg)) <=> irq.high)

====
